---- MODULE Spec2Model ----
(***************************************************************************)
(* Pill Duck: a script of 16-byte HID report records stored in one flash   *)
(* page, replayed by the SysTick handler, and rewritten by the serial      *)
(* command processor.  The SysTick handler is an interrupt: it runs to     *)
(* completion and may fire between any two steps of the main loop, also    *)
(* between two word programs of flash_program_data.                        *)
(***************************************************************************)
EXTENDS Integers, Sequences, FiniteSets, TLC

(***************************************************************************)
(* Program constants                                                       *)
(***************************************************************************)
REPORT_ID_NOP == 0
REPORT_ID_KEYBOARD == 1
REPORT_ID_MOUSE == 2
REPORT_ID_DELAY == 254
REPORT_ID_END == 255

\* sizeof(struct composite_report): report_id + 15 payload bytes, packed
RecordSize == 16
FLASH_PAGE_SIZE == 1024
\* libopencm3 status flag "end of operation": the only success status
FLASH_SR_EOP == 32
FLASH_WRONG_DATA_WRITTEN == 128
RESULT_OK == 0
\* width passed by the 'j' command
JigglerWidth == 30

(***************************************************************************)
(* Bounds of the model                                                     *)
(***************************************************************************)
\* ticks observed after the last command (length of one observation run)
MaxTicks == 5
\* command lines dispatched in one behaviour
MaxCmds == 2
\* write commands, or direct calls of the store, in one behaviour
MaxWrites == 1
\* records before the end marker in a script stored at power-up
MaxScript == 2
\* 4-byte words of a buffer handed directly to the store
MaxWords == 3
\* bytes of a bytecode buffer handed directly to the converter
MaxBytes == 4
\* width handed directly to the pattern generator
MaxWidth == 2
\* direct calls of the converters in one behaviour
MaxCalls == 1
\* packets received on the serial endpoint
MaxChunks == 2
\* times an endpoint is counted busy in one activation
MaxRejects == 2
\* returns of the cursor to 0 that are counted
MaxWraps == 2

(***************************************************************************)
(* Bytes, records, flash images                                            *)
(***************************************************************************)
Min(a, b) == IF a < b THEN a ELSE b

\* n copies of x
Fill(n, x) == [i \in 1..n |-> x]

ZeroRecord == Fill(RecordSize, 0)

\* a report with the given id and payload bytes, the unused bytes zero
MkRecord(id, payload) == <<id>> \o payload \o Fill(RecordSize - 1 - Len(payload), 0)

KeyRecord(modifiers, key) == MkRecord(REPORT_ID_KEYBOARD, <<modifiers, 0, key>>)
MouseRecord(x) == MkRecord(REPORT_ID_MOUSE, <<0, x>>)
DelayRecord(n) == MkRecord(REPORT_ID_DELAY, <<n>>)
NopRecord == MkRecord(REPORT_ID_NOP, <<>>)

\* a report id that is none of the five defined ones
UnknownTag == 7

RECURSIVE Flatten(_)
Flatten(recs) == IF recs = <<>> THEN <<>> ELSE Head(recs) \o Flatten(Tail(recs))

\* A flash page is written down without its trailing erased bytes: the
\* sequence <<b1, ..., bn>> stands for the FLASH_PAGE_SIZE bytes b1, ..., bn,
\* 0xFF, ..., 0xFF.
RECURSIVE Trim(_)
Trim(bytes) ==
    IF bytes # <<>> /\ bytes[Len(bytes)] = 255 THEN Trim(SubSeq(bytes, 1, Len(bytes) - 1))
    ELSE bytes

\* the page holding the given bytes at offset 0, the rest erased
PageImage(bytes) == Trim(bytes)

\* byte of the page at byte offset off (counted from 0)
ByteAt(mem, off) == IF off < Len(mem) THEN mem[off + 1] ELSE 255

\* user_data[i] read from a page image (i counted from 0)
RecordAt(mem, i) == [k \in 1..RecordSize |-> ByteAt(mem, RecordSize * i + k - 1)]

\* number of records of the modelled page
PageRecords == FLASH_PAGE_SIZE \div RecordSize

(***************************************************************************)
(* State                                                                   *)
(***************************************************************************)
VARIABLES
    user_data,              \* the flash page of the script, one byte per element
    report_index,           \* execution cursor
    paused,
    single_step,
    delaying,
    delay_ticks_remaining,
    typing_buf,             \* characters of the command line (static buffer)
    packet_buffer,          \* scratch records of the converters (static buffer)
    conv,                   \* last activation of a converter: arguments and return
    codec,                  \* host-side record codec: argument, result, result mapped back
    sink,                   \* position of the tick handler at the HID endpoint
    cdc,                    \* the serial callback: typing_index, reply_buf, transmission
    reply,                  \* reply of the last dispatched command
    fpd,                    \* activation of flash_program_data
    result,                 \* value returned by the last flash_program_data
    read_out,               \* bytes returned by the last flash_read_data
    cmds,                   \* command lines dispatched so far
    log,                    \* the last two command lines dispatched since the last tick
    ticks,                  \* ticks since the run began
    emitted,                \* reports accepted by the sink since the run began
    start                   \* cursor when the run began

cursor == <<report_index, paused, single_step, delaying, delay_ticks_remaining>>
store == <<user_data, fpd, result, read_out>>
host == <<codec, sink, cdc>>
scratch == <<packet_buffer, conv, host>>
console == <<typing_buf, scratch, reply, cmds, log>>
console_but_reply == <<typing_buf, scratch, cmds, log>>
history == <<ticks, emitted, start>>
vars == <<cursor, store, console, history>>

\* the cursor fields as one value
Snapshot(idx, p, ss, d, dtr) ==
    [index |-> idx, paused |-> p, single_step |-> ss, delaying |-> d, remaining |-> dtr]

\* flash_program_data was never called.  pc is "program" between the erase
\* and the return, iter is the loop counter, statuses are the values
\* flash_get_status_flags returned during the call
NoCall == [pc |-> "idle", input_data |-> <<>>, num_elements |-> 0, iter |-> 0,
           statuses |-> <<>>]

\* no converter was called yet
NoConv == [fn |-> "none", buf |-> <<>>, len |-> 0, width |-> 0, records |-> 0, calls |-> 0]

\* the codec was not called yet; back holds the result once it has been
\* handed to the opposite function
NoCodec == [fn |-> "none", given |-> <<>>, out |-> <<>>, back |-> <<>>, round |-> FALSE]

\* the tick handler is not running; rejected counts the calls of
\* usbd_ep_write_packet that returned 0 in the handler's last activation,
\* wraps the times the cursor was set back to 0 (both kept up to a cap)
NoSink == [pc |-> "idle", rejected |-> 0, wraps |-> 0]

\* usbuart_usb_out_cb was not called yet: typing_index, and what the calls
\* so far received, dispatched and handed to send_chunked_blocking;
\* delivered lists the offsets into reply_buf of the bytes the endpoint
\* took during the last call of send_chunked_blocking; held is the value
\* of paused the pause command has loaded (pc is "cmd" from the entry of
\* process_serial_command to its return)
NoCdc == [typing_index |-> 0, chunks |-> 0, stream |-> <<>>, lines |-> <<>>, buf |-> <<>>,
          reply_buf |-> <<>>, j |-> 0, pc |-> "idle", len |-> 0,
          total_bytes_written |-> 0, bytes_remaining |-> 0, stalls |-> 0,
          delivered |-> <<>>, held |-> FALSE]

\* records a script stored at power-up is made of
ScriptAlphabet ==
    { KeyRecord(2, 4), MouseRecord(1), DelayRecord(1), DelayRecord(3), NopRecord,
      MkRecord(UnknownTag, <<>>) }

RECURSIVE SeqsUpTo(_, _)
SeqsUpTo(S, n) ==
    IF n = 0 THEN { <<>> }
    ELSE LET shorter == SeqsUpTo(S, n - 1)
         IN  shorter \cup { Append(q, x) : q \in shorter, x \in S }

\* flash contents found at power-up: a script followed by erased flash
BootImages == { PageImage(Flatten(sc)) : sc \in SeqsUpTo(ScriptAlphabet, MaxScript) }

(***************************************************************************)
(* main(): state when the polling loop is entered                          *)
(***************************************************************************)
\* static bool paused = true; if (user_data[0].report_id != REPORT_ID_END)
\* paused = false;
PausedAtBootNoScript(tag) == tag \notin {REPORT_ID_KEYBOARD, REPORT_ID_MOUSE, REPORT_ID_DELAY}
PausedAtBoot(tag) == tag = REPORT_ID_END

\* (image: what the flash page holds at power-up)
Boot(image) ==
    /\ user_data = image
    /\ report_index = 0
    /\ paused = PausedAtBoot(RecordAt(user_data, 0)[1])
    /\ single_step = FALSE
    /\ delaying = FALSE
    /\ delay_ticks_remaining = 0
    /\ typing_buf = <<>>
    /\ packet_buffer = <<>>
    /\ conv = NoConv
    /\ codec = NoCodec
    /\ sink = NoSink
    /\ cdc = NoCdc
    /\ reply = ""
    /\ fpd = NoCall
    /\ result = RESULT_OK
    /\ read_out = <<>>
    /\ cmds = 0
    /\ log = <<>>
    /\ ticks = 0
    /\ emitted = <<>>
    /\ start = Snapshot(0, PausedAtBoot(RecordAt(user_data, 0)[1]), FALSE, FALSE, 0)

Init == \E image \in BootImages : Boot(image)

(***************************************************************************)
(* sys_tick_handler                                                        *)
(***************************************************************************)
\* bytes handed to usbd_ep_write_packet: the first len bytes of the report
Wire(report) ==
    IF report[1] = REPORT_ID_KEYBOARD THEN SubSeq(report, 1, 9) ELSE SubSeq(report, 1, 5)

\* if (paused && !single_step) return;
TickSuppressedNoStep(p, ss) == p /\ ss
TickSuppressed(p, ss) == p /\ ~ss

\* if (delay_ticks_remaining <= 0), after the decrement
DelayExpiredLate(remaining) == remaining < 0
DelayExpiredAtZero(remaining) == remaining = 0
DelayExpired(remaining) == remaining <= 0

\* if (single_step) { single_step = false; paused = true; }
PausedAfterEmitKept(p, ss) == p
PausedAfterEmit(p, ss) == IF ss THEN TRUE ELSE p

\* unknown id, REPORT_ID_END included: report_index = 0
IndexAfterEndNext(idx) == idx + 1
IndexAfterEndKept(idx) == idx
IndexAfterEnd(idx) == 0

\* REPORT_ID_NOP: return
IndexAfterNopNext(idx) == idx + 1
IndexAfterNop(idx) == idx

\* ++report_index after the report was accepted
IndexAfterEmitSkip(idx) == idx + 2
IndexAfterEmit(idx) == idx + 1

\* the reports accepted so far, with one more
KeptTwice(e, w) == Append(Append(e, w), w)
Kept(e, w) == Append(e, w)

\* the last accepted report only
Latest(e, w) == <<w>>

\* what the observer of a run ("all") or of the engine left to run for
\* ever ("last") holds after the report w was accepted
Accepted(observer, e, w) == IF observer = "all" THEN Kept(e, w) ELSE Latest(e, w)

\* the handler from its entry to its return, the report accepted by the
\* endpoint; Accepted is how the observer records the report
TickRun(observer) ==
    /\ report_index < PageRecords
    /\ UNCHANGED <<store, typing_buf, packet_buffer, conv, codec, cdc, reply, cmds, start>>
    /\ IF TickSuppressed(paused, single_step)
       THEN UNCHANGED <<cursor, emitted>>
       ELSE LET report == RecordAt(user_data, report_index)
                id == report[1]
            IN  CASE id = REPORT_ID_NOP ->
                       /\ report_index' = IndexAfterNop(report_index)
                       /\ UNCHANGED <<paused, single_step, delaying,
                                      delay_ticks_remaining, emitted>>
                  [] id = REPORT_ID_DELAY ->
                       /\ UNCHANGED <<paused, single_step, emitted>>
                       /\ IF ~delaying
                          THEN /\ delay_ticks_remaining' = report[2]
                               /\ delaying' = TRUE
                               /\ UNCHANGED report_index
                          ELSE /\ delay_ticks_remaining' = delay_ticks_remaining - 1
                               /\ IF DelayExpired(delay_ticks_remaining - 1)
                                  THEN /\ delaying' = FALSE
                                       /\ report_index' = report_index + 1
                                  ELSE UNCHANGED <<delaying, report_index>>
                  [] id \in {REPORT_ID_KEYBOARD, REPORT_ID_MOUSE} ->
                       /\ emitted' = Accepted(observer, emitted, Wire(report))
                       /\ single_step' = FALSE
                       /\ paused' = PausedAfterEmit(paused, single_step)
                       /\ report_index' = IndexAfterEmit(report_index)
                       /\ UNCHANGED <<delaying, delay_ticks_remaining>>
                  [] OTHER ->
                       /\ report_index' = IndexAfterEnd(report_index)
                       /\ UNCHANGED <<paused, single_step, delaying,
                                      delay_ticks_remaining, emitted>>

\* the handler, run to completion when the endpoint accepts at the first call
TickHandler ==
    /\ sink.pc = "idle"
    /\ TickRun("all")
    /\ ticks' = ticks + 1
    /\ log' = <<>>
    /\ sink' = [sink EXCEPT !.rejected = 0]

\* a tick of an observed run
Tick ==
    /\ ticks < MaxTicks
    /\ TickHandler

(***************************************************************************)
(* sys_tick_handler at a busy endpoint: do { bytes_written =               *)
(* usbd_ep_write_packet(...); } while (bytes_written == 0);                *)
(***************************************************************************)
\* the handler is entered on a Keyboard or Pointer record and the first
\* call of usbd_ep_write_packet returns 0
Blocked ==
    /\ sink.pc = "idle"
    /\ report_index < PageRecords
    /\ ~TickSuppressed(paused, single_step)
    /\ RecordAt(user_data, report_index)[1] \in {REPORT_ID_KEYBOARD, REPORT_ID_MOUSE}
    /\ sink' = [sink EXCEPT !.pc = "emit", !.rejected = 1]
    /\ UNCHANGED <<cursor, store, typing_buf, packet_buffer, conv, codec, cdc, reply, cmds,
                   log, history>>

TickBlocked ==
    /\ ticks < MaxTicks
    /\ Blocked

\* the next call returns 0 as well (counted up to MaxRejects; the calls
\* after that change nothing the model holds)
SinkReject ==
    /\ sink.pc = "emit"
    /\ sink.rejected < MaxRejects
    /\ sink' = [sink EXCEPT !.rejected = sink.rejected + 1]
    /\ UNCHANGED <<cursor, store, typing_buf, packet_buffer, conv, codec, cdc, reply, cmds,
                   log, history>>

\* a call returns len: the handler goes on to its return
SinkAccept ==
    /\ sink.pc = "emit"
    /\ TickRun("all")
    /\ ticks' = ticks + 1
    /\ log' = <<>>
    /\ sink' = [sink EXCEPT !.pc = "idle"]

(***************************************************************************)
(* The engine left to run for ever: the observer keeps the last accepted   *)
(* report only and counts the returns of the cursor to 0 up to MaxWraps    *)
(***************************************************************************)
Wrapped(from, to) ==
    IF to = 0 /\ from # 0 THEN Min(sink.wraps + 1, MaxWraps) ELSE sink.wraps

LoopTick ==
    /\ sink.pc = "idle"
    /\ TickRun("last")
    /\ UNCHANGED <<ticks, log>>
    /\ sink' = [sink EXCEPT !.rejected = 0, !.wraps = Wrapped(report_index, report_index')]

LoopBlocked ==
    /\ ticks = 0
    /\ Blocked

LoopAccept ==
    /\ sink.pc = "emit"
    /\ TickRun("last")
    /\ UNCHANGED <<ticks, log>>
    /\ sink' = [sink EXCEPT !.pc = "idle"]

(***************************************************************************)
(* usbuart_usb_out_cb and process_serial_command                           *)
(***************************************************************************)
Chr == [v |-> 118, help |-> 63, w |-> 119, d |-> 100, j |-> 106, r |-> 114, at |-> 64,
        p |-> 112, s |-> 115, z |-> 122, x |-> 120, P |-> 80, A |-> 65,
        cr |-> 13, lf |-> 10]

Terminators == { Chr.cr, Chr.lf }

\* typing_buf after the characters of one line were stored from index 0:
\* what earlier lines left beyond the line stays
Typed(line) ==
    [i \in 1..(IF Len(line) > Len(typing_buf) THEN Len(line) ELSE Len(typing_buf)) |->
        IF i <= Len(line) THEN line[i] ELSE typing_buf[i]]

\* a new run of observation begins with the cursor the command left
BeginRun(idx, p, ss) ==
    /\ ticks' = 0
    /\ emitted' = <<>>
    /\ start' = Snapshot(idx, p, ss, delaying, delay_ticks_remaining)

\* the log after a line with first character c was dispatched, with the
\* cursor the command found
Logged(c) ==
    LET entry == [cmd |-> c,
                  was |-> Snapshot(report_index, paused, single_step, delaying,
                                   delay_ticks_remaining)]
    IN  IF Len(log) < 2 THEN Append(log, entry) ELSE <<log[2], entry>>

\* a whole line has arrived and is dispatched while no store call is active
Dispatch(line) ==
    /\ fpd.pc = "idle"
    /\ sink.pc = "idle"
    /\ cmds < MaxCmds
    /\ cmds' = cmds + 1
    /\ typing_buf' = Typed(line)
    /\ log' = Logged(line[1])

\* the same for a write command
DispatchWrite(line) ==
    /\ fpd.pc = "idle"
    /\ cmds < MaxWrites
    /\ cmds' = cmds + 1
    /\ typing_buf' = Typed(line)
    /\ log' = Logged(line[1])

\* paused = !paused; if (paused) return "paused"; else return "resumed";
ToggledStuck(p) == TRUE
Toggled(p) == ~p

PauseReply(p) == IF p THEN "paused" ELSE "resumed"

CmdPause ==
    \E t \in {Chr.cr} :
        /\ Dispatch(<<Chr.p, t>>)
        /\ paused' = Toggled(paused)
        /\ reply' = PauseReply(Toggled(paused))
        /\ BeginRun(report_index, Toggled(paused), single_step)
        /\ UNCHANGED <<report_index, single_step, delaying, delay_ticks_remaining,
                       store, scratch>>

CmdStep ==
    \E t \in {Chr.cr} :
        /\ Dispatch(<<Chr.s, t>>)
        /\ single_step' = TRUE
        /\ reply' = "step"
        /\ BeginRun(report_index, paused, TRUE)
        /\ UNCHANGED <<report_index, paused, delaying, delay_ticks_remaining,
                       store, scratch>>

\* report_index = 0;
IndexAfterResetKept(idx) == idx
IndexAfterReset(idx) == 0

CmdReset ==
    \E t \in {Chr.cr} :
        /\ Dispatch(<<Chr.z, t>>)
        /\ report_index' = IndexAfterReset(report_index)
        /\ reply' = ""
        /\ BeginRun(0, paused, single_step)
        /\ UNCHANGED <<paused, single_step, delaying, delay_ticks_remaining,
                       store, scratch>>

\* the characters process_serial_command compares buf[0] with
CommandChars == { Chr.v, Chr.help, Chr.w, Chr.d, Chr.j, Chr.r, Chr.at, Chr.p, Chr.s, Chr.z }

\* lines that begin with none of them: an empty line (the terminator is
\* buf[0]), an unassigned letter, an upper-case command letter
InvalidLines == { <<Chr.cr>>, <<Chr.lf>>, <<Chr.x, Chr.cr>>, <<Chr.P, Chr.cr>> }

\* the last else branch; the fall-through return "" is the reset command's
InvalidReplyEmpty == ""
InvalidReply == "invalid command, try ? for help"

CmdInvalid ==
    \E line \in InvalidLines :
        /\ line[1] \notin CommandChars
        /\ Dispatch(line)
        /\ reply' = InvalidReply
        /\ BeginRun(report_index, paused, single_step)
        /\ UNCHANGED <<cursor, store, scratch>>

(***************************************************************************)
(* The cursor commands with the SysTick interrupt between their loads and  *)
(* stores: process_serial_command runs in the polling loop of main(), the  *)
(* handler interrupts it                                                   *)
(***************************************************************************)
\* the cursor after a tick that found it as cur
TickOf(cur) ==
    IF TickSuppressed(cur.paused, cur.single_step) THEN cur
    ELSE LET report == RecordAt(user_data, cur.index)
             id == report[1]
         IN  CASE id = REPORT_ID_NOP -> [cur EXCEPT !.index = IndexAfterNop(cur.index)]
               [] id = REPORT_ID_DELAY ->
                    IF ~cur.delaying
                    THEN [cur EXCEPT !.remaining = report[2], !.delaying = TRUE]
                    ELSE IF DelayExpired(cur.remaining - 1)
                    THEN [cur EXCEPT !.remaining = cur.remaining - 1, !.delaying = FALSE,
                                     !.index = cur.index + 1]
                    ELSE [cur EXCEPT !.remaining = cur.remaining - 1]
               [] id \in {REPORT_ID_KEYBOARD, REPORT_ID_MOUSE} ->
                    [cur EXCEPT !.single_step = FALSE,
                                !.paused = PausedAfterEmit(cur.paused, cur.single_step),
                                !.index = IndexAfterEmit(cur.index)]
               [] OTHER -> [cur EXCEPT !.index = IndexAfterEnd(cur.index)]

\* process_serial_command is entered with a line that begins with 'p', 's'
\* or 'z'; for 'p' the value of paused is loaded
CmdBegin ==
    /\ cdc.pc = "idle"
    /\ \E c \in {Chr.p, Chr.s, Chr.z} :
          /\ Dispatch(<<c, Chr.cr>>)
          /\ cdc' = [cdc EXCEPT !.pc = "cmd", !.held = (c = Chr.p /\ paused)]
    /\ BeginRun(report_index, paused, single_step)
    /\ UNCHANGED <<cursor, store, packet_buffer, conv, codec, sink, reply>>

\* the handler runs between the load and the store
PreemptTick ==
    /\ cdc.pc = "cmd"
    /\ sink.pc = "idle"
    /\ ticks = 0
    /\ TickRun("all")
    /\ ticks' = ticks + 1
    /\ UNCHANGED <<log, sink>>

\* the store of the command and its return
CmdEnd ==
    /\ cdc.pc = "cmd"
    /\ LET c == log[Len(log)].cmd
       IN  CASE c = Chr.p ->
                  /\ paused' = Toggled(cdc.held)
                  /\ reply' = PauseReply(Toggled(cdc.held))
                  /\ UNCHANGED <<report_index, single_step>>
             [] c = Chr.s ->
                  /\ single_step' = TRUE
                  /\ reply' = "step"
                  /\ UNCHANGED <<report_index, paused>>
             [] OTHER ->
                  /\ report_index' = IndexAfterReset(report_index)
                  /\ reply' = ""
                  /\ UNCHANGED <<paused, single_step>>
    /\ cdc' = [cdc EXCEPT !.pc = "idle", !.held = FALSE]
    /\ UNCHANGED <<delaying, delay_ticks_remaining, store, typing_buf, packet_buffer, conv,
                   codec, sink, cmds, log, history>>

\* a tick while no command is being processed
IdleTick ==
    /\ cdc.pc = "idle"
    /\ Tick

(***************************************************************************)
(* hex_utils.c                                                             *)
(***************************************************************************)
hexdigits == <<48, 49, 50, 51, 52, 53, 54, 55, 56, 57, 97, 98, 99, 100, 101, 102>>

RECURSIVE hexify(_)
hexify(bytes) ==
    IF bytes = <<>> THEN <<>>
    ELSE <<hexdigits[(Head(bytes) \div 16) + 1], hexdigits[(Head(bytes) % 16) + 1]>>
         \o hexify(Tail(bytes))

\* uint8_t arithmetic on the character code
unhex_digit(hex) ==
    LET t0 == (hex - 48) % 256
        t1 == IF t0 > 9 THEN (t0 - 7) % 256 ELSE t0
    IN  IF t1 > 16 THEN (t1 - 32) % 256 ELSE t1

RECURSIVE BitOr(_, _)
BitOr(a, b) ==
    IF a = 0 THEN b
    ELSE IF b = 0 THEN a
    ELSE (IF a % 2 = 1 \/ b % 2 = 1 THEN 1 ELSE 0) + 2 * BitOr(a \div 2, b \div 2)

\* character buf[i] of the static typing buffer (i counted from 0): what was
\* never typed is still zero
CharAt(buf, i) == IF i < Len(buf) THEN buf[i + 1] ELSE 0

\* unhexify(binary, &buf[1], size): size bytes decoded from the 2*size
\* characters that follow the command byte
unhexify(buf, size) ==
    [k \in 1..size |->
        BitOr((unhex_digit(CharAt(buf, 2 * k - 1)) * 16) % 256,
              unhex_digit(CharAt(buf, 2 * k)))]

(***************************************************************************)
(* convert_ducky_binary and add_mouse_jiggler: both write into             *)
(* packet_buffer and leave every byte they do not assign as it was         *)
(***************************************************************************)
\* record with its first bytes assigned
Assign(rec, bytes) == [k \in 1..RecordSize |-> IF k <= Len(bytes) THEN bytes[k] ELSE rec[k]]

\* packet_buffer is written down without its trailing records that were
\* never assigned, which are zero (static initialisation)
Slot(out, j) == IF j < Len(out) THEN out[j + 1] ELSE ZeroRecord

\* out[j] (j counted from 0) assigned
Put(out, j, bytes) ==
    LET have == IF j < Len(out) THEN out ELSE out \o Fill(j + 1 - Len(out), ZeroRecord)
    IN  [have EXCEPT ![j + 1] = Assign(have[j + 1], bytes)]

\* out[j] of a delay word: report_id and padding[0]
DelayBytesZero(hi) == <<REPORT_ID_DELAY, 0>>
DelayBytes(hi) == <<REPORT_ID_DELAY, hi>>

\* out[j] of a keystroke word: report_id, modifiers, reserved, keys_down[0..5], leds
PressBytesSwapped(hi, lo) == <<REPORT_ID_KEYBOARD, lo, 1, hi, 0, 0, 0, 0, 0, 0>>
PressBytes(hi, lo) == <<REPORT_ID_KEYBOARD, hi, 1, lo, 0, 0, 0, 0, 0, 0>>

\* out[j + 1] of a keystroke word
ReleaseBytes == <<REPORT_ID_KEYBOARD, 0, 1, 0, 0, 0, 0, 0, 0, 0>>

\* out[j].report_id = REPORT_ID_END; ++j; return j;
TerminatedOpen(out, j) == [out |-> out, records |-> j]
Terminated(out, j) == [out |-> Put(out, j, <<REPORT_ID_END>>), records |-> j + 1]

RECURSIVE DuckyLoop(_, _, _, _, _)
DuckyLoop(buf, len, i, j, out) ==
    IF i >= len THEN Terminated(out, j)
    ELSE LET lo == buf[i + 1]
             hi == buf[i + 2]
             assigned == IF lo = 0 THEN Put(out, j, DelayBytes(hi))
                         ELSE Put(Put(out, j, PressBytes(hi, lo)), j + 1, ReleaseBytes)
         IN  \* out[j] is assigned before the next iteration begins
             IF Slot(assigned, j)[1] \in {REPORT_ID_DELAY, REPORT_ID_KEYBOARD}
             THEN DuckyLoop(buf, len, i + 2, IF lo = 0 THEN j + 1 ELSE j + 2, assigned)
             ELSE Terminated(assigned, j)

convert_ducky_binary(buf, len, out) ==
    DuckyLoop(buf, IF len % 2 # 0 THEN len - 1 ELSE len, 0, 0, out)

\* mouse.x = -1 stored in a uint8_t
LeftDeltaRight == 1 % 256
LeftDelta == (-1) % 256

RECURSIVE JigglerLoop(_, _, _, _, _)
JigglerLoop(width, i, x, j, out) ==
    IF i >= width THEN [out |-> out, records |-> j]
    ELSE LET assigned == Put(out, j, <<REPORT_ID_MOUSE, 0, x, 0, 0>>)
         IN  \* packet_buffer[j] is assigned before the next iteration begins
             IF Slot(assigned, j)[1] = REPORT_ID_MOUSE
             THEN JigglerLoop(width, i + 1, x, j + 1, assigned)
             ELSE [out |-> assigned, records |-> j]

add_mouse_jiggler(width, out) ==
    LET right == JigglerLoop(width, 0, 1, 0, out)
        left == JigglerLoop(width, 0, LeftDelta, right.records, right.out)
    IN  [out |-> Put(left.out, left.records, <<REPORT_ID_END>>), records |-> left.records + 1]

\* conv after a call of convert_ducky_binary(buf, len, packet_buffer)
DuckyConv(buf, len, records) ==
    [fn |-> "ducky", buf |-> buf, len |-> len, width |-> 0, records |-> records,
     calls |-> conv.calls + 1]

\* conv after a call of add_mouse_jiggler(width)
JigglerConv(width, records) ==
    [fn |-> "jiggler", buf |-> <<>>, len |-> 0, width |-> width, records |-> records,
     calls |-> conv.calls + 1]

(***************************************************************************)
(* flash.c over the medium                                                 *)
(***************************************************************************)
\* values flash_get_status_flags can return: no flag, PGERR, EOP
StatusValues == { 0, 4, FLASH_SR_EOP }

\* what a word program leaves in the cell: the word, only its first
\* half-word (a word is programmed as two half-words), or nothing
Effects == { "full", "half", "none" }

RoundUp4(n) == ((n + 3) \div 4) * 4

\* the 4 bytes of the page at byte offset off (counted from 0)
WordAt(mem, off) == [k \in 1..4 |-> ByteAt(mem, off + k - 1)]

\* *((uint32_t*)(input_data + iter))
InputWord(input_data, iter) == SubSeq(input_data, iter + 1, iter + 4)

Programmed(old, word, effect) ==
    CASE effect = "full" -> word
      [] effect = "half" -> <<word[1], word[2], old[3], old[4]>>
      [] OTHER -> old

\* flash_program_word on the page
ProgramWord(mem, off, word, effect) ==
    Trim([i \in 1..(IF off + 4 > Len(mem) THEN off + 4 ELSE Len(mem)) |->
            IF i > off /\ i <= off + 4
            THEN Programmed(WordAt(mem, off), word, effect)[i - off]
            ELSE ByteAt(mem, i - 1)])

\* flash_erase_page: every byte of the page reads 0xFF
ErasePageKept(mem) == mem
ErasePage(mem) == <<>>

\* the three-way reply of the write commands
WriteReply(res) ==
    IF res = RESULT_OK THEN "wrote flash"
    ELSE IF res = FLASH_WRONG_DATA_WRITTEN THEN "wrong data written"
    ELSE "error writing flash"

\* if (flash_status != FLASH_SR_EOP) return flash_status;
FaultResultVerify(st) == FLASH_WRONG_DATA_WRITTEN
FaultResult(st) == st

\* flash_program_data returns res; a write command replies with it
Return(call, res) ==
    /\ result' = res
    /\ reply' = WriteReply(res)
    /\ fpd' = [call EXCEPT !.pc = "idle"]
    /\ BeginRun(report_index, paused, single_step)

\* entry of flash_program_data up to the loop: unlock, erase, status
ProgramEntry(input_data, num_elements) ==
    \E st \in StatusValues :
        LET call == [pc |-> "program", input_data |-> input_data,
                     num_elements |-> num_elements, iter |-> 0, statuses |-> <<st>>]
        IN  /\ user_data' = (IF st = FLASH_SR_EOP THEN ErasePage(user_data) ELSE user_data)
            /\ read_out' = <<>>
            /\ IF st # FLASH_SR_EOP THEN Return(call, FaultResult(st))
               ELSE IF ~(0 < num_elements) THEN Return(call, RESULT_OK)
               ELSE /\ fpd' = call
                    /\ BeginRun(report_index, paused, single_step)
                    /\ UNCHANGED <<result, reply>>

\* one iteration of the programming loop.  The loop has no bound but
\* num_elements: an offset at or beyond FLASH_PAGE_SIZE addresses the flash
\* that follows the page, which the erase left as it was (never programmed
\* in the model)
ProgramChunk ==
    /\ fpd.pc = "program"
    /\ \E st \in StatusValues, effect \in Effects :
        LET word == InputWord(fpd.input_data, fpd.iter)
            mem == ProgramWord(user_data, fpd.iter, word, effect)
            call == [fpd EXCEPT !.statuses = Append(fpd.statuses, st)]
        IN  /\ user_data' = mem
            /\ IF st # FLASH_SR_EOP THEN Return(call, FaultResult(st))
               ELSE IF WordAt(mem, fpd.iter) # word
                    THEN Return(call, FLASH_WRONG_DATA_WRITTEN)
               ELSE IF ~(fpd.iter + 4 < fpd.num_elements)
                    THEN Return([call EXCEPT !.iter = fpd.iter + 4], RESULT_OK)
               ELSE /\ fpd' = [call EXCEPT !.iter = fpd.iter + 4]
                    /\ UNCHANGED <<result, reply, history>>
    /\ UNCHANGED <<cursor, read_out, console_but_reply>>

\* flash_read_data: num_elements/4 words copied from the start of the page
flash_read_data(mem, num_elements) ==
    [k \in 1..(4 * (num_elements \div 4)) |-> ByteAt(mem, k - 1)]

(***************************************************************************)
(* the write commands                                                      *)
(***************************************************************************)
\* the 'w', 'd' and 'j' branches assign to no cursor variable: the index
\* after the command is the index before
IndexAfterWriteReset(idx) == 0
IndexAfterWrite(idx) == idx

\* payloads of the raw write lines offered to the device
\* (a pointer report; the first 12 bytes of a keyboard report)
RawPayloads ==
    { SubSeq(MouseRecord(1), 1, 4), SubSeq(KeyRecord(2, 4), 1, 12) }

\* payloads of the bytecode write lines: delay 2; key 4 with modifier 2
DuckyPayloads == { <<0, 2>>, <<4, 2>> }

\* binary[1024] after unhexify, as far as flash_program_data reads it
Binary(buf, len) ==
    LET decoded == unhexify(buf, len)
    IN  [k \in 1..RoundUp4(len \div 2) |-> IF k <= len THEN decoded[k] ELSE 0]

\* what follows the hex digits of a payload on the line: nothing, or one
\* more hex digit ('A')
TrailingDigits == { <<>>, <<Chr.A>> }

CmdWriteRaw ==
    \E payload \in RawPayloads, odd \in TrailingDigits, t \in Terminators :
        LET line == <<Chr.w>> \o hexify(payload) \o odd \o <<t>>
            len == Len(line)
        IN  /\ DispatchWrite(line)
            /\ ProgramEntry(Binary(Typed(line), len), len \div 2)
            /\ report_index' = IndexAfterWrite(report_index)
            /\ UNCHANGED <<paused, single_step, delaying, delay_ticks_remaining, scratch>>

\* struct composite_report packet_buffer[1024 / sizeof(struct composite_report)]
PacketBufferRecords == FLASH_PAGE_SIZE \div RecordSize

\* payloads of bytecode lines that fit the typing buffer and hold 31 and 32
\* keystroke words (key 4, no modifier)
LongPayloads ==
    { Flatten(Fill(n, <<4, 0>>)) : n \in {PacketBufferRecords \div 2 - 1, PacketBufferRecords \div 2} }

WriteDucky(payloads) ==
    \E payload \in payloads, odd \in TrailingDigits, t \in {Chr.cr} :
        LET line == <<Chr.d>> \o hexify(payload) \o odd \o <<t>>
            len == Len(line)
            binary == unhexify(Typed(line), len)
            gen == convert_ducky_binary(binary, len \div 2, packet_buffer)
        IN  /\ DispatchWrite(line)
            /\ packet_buffer' = gen.out
            /\ conv' = DuckyConv(binary, len \div 2, gen.records)
            /\ UNCHANGED host
            /\ ProgramEntry(Flatten(gen.out), gen.records * RecordSize)
            /\ report_index' = IndexAfterWrite(report_index)
            /\ UNCHANGED <<paused, single_step, delaying, delay_ticks_remaining>>

CmdWriteDucky ==
    /\ fpd.pc = "idle"
    /\ WriteDucky(DuckyPayloads)

\* the bytecode write of a long line
CmdWriteLong ==
    /\ fpd.pc = "idle"
    /\ WriteDucky(LongPayloads)

CmdJiggler ==
    \E t \in {Chr.cr} :
        LET gen == add_mouse_jiggler(JigglerWidth, packet_buffer)
        IN  /\ DispatchWrite(<<Chr.j, t>>)
            /\ packet_buffer' = gen.out
            /\ conv' = JigglerConv(JigglerWidth, gen.records)
            /\ UNCHANGED host
            /\ ProgramEntry(Flatten(gen.out), gen.records * RecordSize)
            /\ report_index' = IndexAfterWrite(report_index)
            /\ UNCHANGED <<paused, single_step, delaying, delay_ticks_remaining>>

(***************************************************************************)
(* usbuart_usb_out_cb: one received packet, from the read of the endpoint  *)
(* to the call of send_chunked_blocking                                    *)
(***************************************************************************)
CDCACM_PACKET_SIZE == 128

\* char typing_buf[2048]; char reply_buf[256];
TypingCapacity == 2048
ReplyCapacity == 256

\* '\r' '\n' 'd' 'u' 'c' 'k' '>' ' '
Prompt == <<13, 10, 100, 117, 99, 107, 62, 32>>

\* process_serial_command on the cursor held in cur, for the lines that
\* begin with 'p', 's', 'z', '?' or with no command character
Command(c, cur) ==
    CASE c = Chr.p -> [cur |-> [cur EXCEPT !.paused = Toggled(cur.paused)],
                       response |-> PauseReply(Toggled(cur.paused))]
      [] c = Chr.s -> [cur |-> [cur EXCEPT !.single_step = TRUE], response |-> "step"]
      [] c = Chr.z -> [cur |-> [cur EXCEPT !.index = IndexAfterReset(cur.index)],
                       response |-> ""]
      [] c = Chr.help -> [cur |-> cur, response |-> "see source code for help"]
      [] OTHER -> [cur |-> cur, response |-> InvalidReply]

\* A store at typing_buf[2048] or beyond is outside the array.  It lands in
\* the static data that follows the array ("beyond": the model writes it
\* down as further elements of typing_buf) or on typing_index itself, whose
\* low byte it replaces ("index").
TypingOverruns == { "beyond", "index" }

\* reply_buf is on the stack of the callback.  Bytes stored at
\* reply_buf[256] or beyond land in the frame above it: they are sent as
\* they were stored ("beyond"), or they overwrite what the callback needs
\* to return and nothing is sent ("fault").
ReplyOverruns == { "beyond", "fault" }

\* buf with buf[idx] = c (idx counted from 0)
StoreChar(buf, idx, c) ==
    LET have == IF idx < Len(buf) THEN buf ELSE buf \o Fill(idx + 1 - Len(buf), 0)
    IN  [have EXCEPT ![idx + 1] = c]

\* typing_buf[typing_index++] = buf[i]
TypedChar(st, c, overrun) ==
    IF st.typing_index < TypingCapacity \/ overrun = "beyond"
    THEN [typing_buf |-> StoreChar(st.typing_buf, st.typing_index, c),
          typing_index |-> st.typing_index + 1]
    ELSE [typing_buf |-> st.typing_buf,
          typing_index |-> (st.typing_index \div 256) * 256 + c + 1]

\* what one received character adds to reply_buf: its echo, and after a
\* terminator the response and the prompt
Reply(c, response, prompt) ==
    [echo |-> IF c = Chr.cr THEN <<Chr.lf, c>> ELSE <<c>>, response |-> response,
     prompt |-> prompt]

ReplyBytes(r) == Len(r.echo) + Len(r.response) + Len(r.prompt)

\* one iteration of the for loop, on the character c
OutChar(c, st, overrun) ==
    LET typed == TypedChar(st, c, overrun)
        done == Command(typed.typing_buf[1], st.cur)
        entry == IF c \in Terminators THEN Reply(c, done.response, Prompt)
                 ELSE Reply(c, "", <<>>)
    IN  [typing_buf |-> typed.typing_buf,
         typing_index |-> IF c \in Terminators THEN 0 ELSE typed.typing_index,
         cur |-> IF c \in Terminators THEN done.cur ELSE st.cur,
         lines |-> IF c \in Terminators
                   THEN Append(st.lines,
                            [buf |-> SubSeq(typed.typing_buf, 1,
                                            Min(typed.typing_index, Len(typed.typing_buf))),
                             len |-> typed.typing_index,
                             response |-> done.response])
                   ELSE st.lines,
         reply_buf |-> Append(st.reply_buf, entry),
         j |-> st.j + ReplyBytes(entry)]

\* the for loop over buf[lo .. hi] (counted from 1), the characters taken
\* in order: the first half of the range, then the second
RECURSIVE OutLoop(_, _, _, _, _)
OutLoop(buf, lo, hi, st, overrun) ==
    IF lo > hi THEN st
    ELSE IF lo = hi THEN OutChar(buf[lo], st, overrun)
    ELSE LET mid == (lo + hi) \div 2
             first == OutLoop(buf, lo, mid, st, overrun)
         IN  \* buf[mid] is stored before buf[mid + 1] is looked at
             IF first.j > 0 THEN OutLoop(buf, mid + 1, hi, first, overrun) ELSE first

\* send_chunked_blocking(reply_buf, j, ...) is entered
SendEntry(reply_buf, j) ==
    [pc |-> "send", reply_buf |-> reply_buf, j |-> j, len |-> j,
     total_bytes_written |-> 0, bytes_remaining |-> j % 65536, stalls |-> 0,
     delivered |-> <<>>, held |-> FALSE]

\* the callback on the packet buf, up to the call of send_chunked_blocking
\* (counted: what the packet adds to the count of packets observed)
OutCallback(buf, counted) ==
    /\ cdc.pc = "idle"
    /\ sink.pc = "idle"
    /\ fpd.pc = "idle"
    /\ \E typing \in TypingOverruns, replying \in ReplyOverruns :
        LET st == OutLoop(buf, 1, Len(buf),
                      [typing_buf |-> typing_buf, typing_index |-> cdc.typing_index,
                       cur |-> Snapshot(report_index, paused, single_step, delaying,
                                        delay_ticks_remaining),
                       lines |-> <<>>, reply_buf |-> <<>>, j |-> 0],
                      typing)
            heard == [cdc EXCEPT !.typing_index = st.typing_index,
                                 !.chunks = cdc.chunks + counted,
                                 !.stream = cdc.stream \o buf,
                                 !.lines = cdc.lines \o st.lines,
                                 !.buf = buf]
            sent == SendEntry(st.reply_buf, st.j)
        IN  /\ typing_buf' = st.typing_buf
            /\ report_index' = st.cur.index
            /\ paused' = st.cur.paused
            /\ single_step' = st.cur.single_step
            /\ UNCHANGED <<delaying, delay_ticks_remaining>>
            /\ cdc' = IF st.j > ReplyCapacity /\ replying = "fault"
                      THEN [heard EXCEPT !.pc = "fault", !.reply_buf = <<>>, !.j = st.j,
                                         !.delivered = <<>>]
                      ELSE [heard EXCEPT !.pc = sent.pc, !.reply_buf = sent.reply_buf,
                                         !.j = sent.j, !.len = sent.len,
                                         !.total_bytes_written = sent.total_bytes_written,
                                         !.bytes_remaining = sent.bytes_remaining,
                                         !.stalls = sent.stalls,
                                         !.delivered = sent.delivered]
            /\ cmds' = cmds + Len(st.lines)
            /\ reply' = IF st.lines = <<>> THEN reply ELSE st.lines[Len(st.lines)].response
            /\ IF st.lines = <<>> THEN UNCHANGED history
               ELSE BeginRun(st.cur.index, st.cur.paused, st.cur.single_step)
    /\ UNCHANGED <<store, packet_buffer, conv, codec, sink, log>>

\* packets the host sends: nothing; part of a line; whole lines; two lines;
\* seven empty lines
Chunks ==
    { <<>>, <<Chr.p>>, <<Chr.cr>>, <<Chr.s, Chr.lf>>, <<Chr.p, Chr.cr>>,
      <<Chr.z, Chr.cr, Chr.help, Chr.cr>>, Fill(7, Chr.cr) }

\* (sent while a line is short, or after typing_index passed the capacity)
UsbOut ==
    /\ cdc.chunks < MaxChunks
    /\ cdc.typing_index < CDCACM_PACKET_SIZE \/ cdc.typing_index > TypingCapacity
    /\ \E buf \in Chunks : OutCallback(buf, 1)

\* a full packet of a character that ends no line, sent before anything
\* else was: typing_index only grows
UsbOutFill ==
    /\ cdc.chunks = 0
    /\ cdc.typing_index <= TypingCapacity
    /\ OutCallback(Fill(CDCACM_PACKET_SIZE, Chr.x), 0)

(***************************************************************************)
(* send_chunked_blocking: one iteration of the do-while loop               *)
(***************************************************************************)
\* what usbd_ep_write_packet can return for a write of n bytes: 0 (busy),
\* n, and for a transport that takes part of a write, half of n
Accepts(n) == { 0, n \div 2, n }

\* total_bytes_written += bytes_written (uint16_t)
NextOffsetPacket(total, written) == (total + CDCACM_PACKET_SIZE) % 65536
NextOffset(total, written) == (total + written) % 65536

\* the bytes buf + total_bytes_written .. of a write the endpoint took
Taken(total, written) == [k \in 1..written |-> total + k - 1]

SendWrite(stalled) ==
    /\ cdc.pc = "send"
    /\ sink.pc = "idle"
    /\ LET this_length == Min(cdc.bytes_remaining, CDCACM_PACKET_SIZE)
       IN  \E bytes_written \in Accepts(this_length) :
             /\ stalled = (bytes_written = 0 /\ cdc.bytes_remaining > 0)
             /\ cdc' = [cdc EXCEPT
                   !.bytes_remaining = cdc.bytes_remaining - bytes_written,
                   !.total_bytes_written =
                       NextOffset(cdc.total_bytes_written, bytes_written),
                   !.delivered =
                       cdc.delivered \o Taken(cdc.total_bytes_written, bytes_written),
                   !.stalls = IF cdc.bytes_remaining - bytes_written > 0
                              THEN (IF stalled THEN Min(cdc.stalls + 1, MaxRejects)
                                    ELSE cdc.stalls)
                              ELSE 0,
                   !.pc = IF cdc.bytes_remaining - bytes_written > 0 THEN "send" ELSE "idle"]
    /\ UNCHANGED <<cursor, store, typing_buf, packet_buffer, conv, codec, sink, reply, cmds,
                   log, history>>

\* the endpoint is busy: the same bytes are offered again
SendStall ==
    /\ cdc.bytes_remaining > 0
    /\ SendWrite(TRUE)

\* the endpoint takes bytes (or the reply is empty and the loop ends)
SendAccept ==
    /\ cdc.bytes_remaining >= 0
    /\ SendWrite(FALSE)

\* lengths of the replies handed over: none, one byte, a full packet, one
\* byte more, and all of reply_buf
SendLens == { 0, 1, CDCACM_PACKET_SIZE, CDCACM_PACKET_SIZE + 1, ReplyCapacity }

\* send_chunked_blocking(reply_buf, j, dev, CDCACM_UART_ENDPOINT,
\* CDCACM_PACKET_SIZE) is called with j bytes of echo in reply_buf
SendCall ==
    /\ cdc.pc = "idle"
    /\ sink.pc = "idle"
    /\ cdc.chunks < MaxChunks
    /\ \E j \in SendLens :
          LET sent == SendEntry(Fill(j, Reply(Chr.x, "", <<>>)), j)
          IN  cdc' = [sent EXCEPT !.pc = "send"] @@ [cdc EXCEPT !.chunks = cdc.chunks + 1]
    /\ UNCHANGED <<cursor, store, typing_buf, packet_buffer, conv, codec, sink, reply, cmds,
                   log, history>>

(***************************************************************************)
(* The converters called directly, on the scratch buffer as the calls      *)
(* before left it                                                          *)
(***************************************************************************)
\* bytes the bytecode buffers are made of: 0 makes a delay word when it is
\* the low byte
ByteAlphabet == { 0, 2, 7 }

\* widths the pattern generator is called with: the small ones and the one
\* the 'j' command passes
Widths == (0..MaxWidth) \cup { JigglerWidth }

ConvertInit == Boot(<<>>)

ConvertDucky(bufs, limit) ==
    /\ conv.calls < limit
    /\ \E buf \in bufs :
        LET gen == convert_ducky_binary(buf, Len(buf), packet_buffer)
        IN  /\ packet_buffer' = gen.out
            /\ conv' = DuckyConv(buf, Len(buf), gen.records)
    /\ UNCHANGED <<cursor, store, typing_buf, reply, cmds, log, history, host>>

ConvertJiggler(widths, limit) ==
    /\ conv.calls < limit
    /\ \E width \in widths :
        LET gen == add_mouse_jiggler(width, packet_buffer)
        IN  /\ packet_buffer' = gen.out
            /\ conv' = JigglerConv(width, gen.records)
    /\ UNCHANGED <<cursor, store, typing_buf, reply, cmds, log, history, host>>

DuckyCall ==
    /\ fpd.pc = "idle"
    /\ ConvertDucky(SeqsUpTo(ByteAlphabet, MaxBytes), MaxCalls)

JigglerCall ==
    /\ fpd.pc = "idle"
    /\ ConvertJiggler(Widths, MaxCalls)

\* one more call, on the scratch buffer as the call before left it: no
\* word, a delay word, a keystroke word; widths 0 and 1
DuckyAgain ==
    /\ conv.calls >= 1
    /\ ConvertDucky({ <<>>, <<0, 7>>, <<7, 2>> }, MaxCalls + 1)

JigglerAgain ==
    /\ conv.calls >= 1
    /\ ConvertJiggler({ 0, 1 }, MaxCalls + 1)

(***************************************************************************)
(* The store called directly, as its interface allows: any buffer, any     *)
(* length that the buffer covers                                           *)
(***************************************************************************)
\* words the buffers are made of: the start of a pointer report, an erased
\* word, a word with one byte equal to the erased value
DataWords == { <<2, 0, 1, 0>>, <<255, 255, 255, 255>>, <<1, 2, 255, 4>> }

\* the script in flash before the call: longer than any buffer programmed
OldImage == PageImage(Flatten(<<KeyRecord(0, 5), MouseRecord(1), DelayRecord(3)>>))

StoreInit == Boot(OldImage)

\* one call, made on the flash as it was at power-up
StoreCall ==
    /\ fpd = NoCall
    /\ UNCHANGED <<cmds, log>>
    /\ \E words \in SeqsUpTo(DataWords, MaxWords) :
        \E n \in 0..(4 * Len(words)) :
            /\ RoundUp4(n) = 4 * Len(words)
            /\ ProgramEntry(Flatten(words), n)
    /\ UNCHANGED <<cursor, typing_buf, scratch>>

StoreRead ==
    /\ fpd.pc = "idle"
    /\ fpd # NoCall
    /\ read_out' = flash_read_data(user_data, fpd.num_elements)
    /\ UNCHANGED <<cursor, user_data, fpd, result, console, history>>

(***************************************************************************)
(* The jiggler command on a device replaying a script.  The engine is      *)
(* observed before the command and after a write that ran to its end, long *)
(* enough for the cursor to go once around the pattern; the ticks that     *)
(* come while the page is being programmed are those of WriteSpec.         *)
(***************************************************************************)
\* ticks for the cursor to go through the 2 * 30 pointer records and End
JigglerRun == 2 * JigglerWidth + 1

\* the 'j' command has returned after the last word of the pattern was
\* programmed and verified
JigglerWritten ==
    /\ fpd.pc = "idle"
    /\ conv.fn = "jiggler"
    /\ fpd.num_elements > 0
    /\ fpd.iter >= fpd.num_elements
    /\ result = RESULT_OK

JigglerInit == Boot(OldImage)

JigglerTick ==
    /\ \/ fpd = NoCall /\ ticks < MaxTicks
       \/ JigglerWritten /\ ticks < JigglerRun
    /\ TickHandler

(***************************************************************************)
(* The record codec of the host tools (decode and encode): a record value  *)
(* is a TLA+ record with the fields of its variant.                        *)
(***************************************************************************)
\* bytes buf[a..b] (offsets counted from 0)
Bytes(buf, a, b) == [k \in 1..(b - a + 1) |-> buf[a + k]]

decode(buf) ==
    IF buf[1] = REPORT_ID_MOUSE
    THEN [report_id |-> buf[1], buttons |-> buf[2], x |-> buf[2], y |-> buf[3],
          wheel |-> buf[4]]
    ELSE IF buf[1] = REPORT_ID_KEYBOARD
    THEN [report_id |-> buf[1], modifiers |-> buf[2], reserved |-> buf[3],
          keys_down |-> Bytes(buf, 3, 8), leds |-> buf[10]]
    ELSE [report_id |-> buf[1]]

encode(rec) ==
    IF rec.report_id = REPORT_ID_MOUSE
    THEN MkRecord(REPORT_ID_MOUSE, <<rec.buttons, rec.x, rec.y, rec.wheel>>)
    ELSE IF rec.report_id = REPORT_ID_KEYBOARD
    THEN MkRecord(REPORT_ID_KEYBOARD,
                  <<rec.modifiers, rec.reserved>> \o rec.keys_down \o <<rec.leds>>)
    ELSE ZeroRecord

\* values of the fields of the records handed to the codec
Deltas == { 0, 1, 255 }
Flags == { 0, 2 }
Durations == { 0, 3, 255 }

\* valid records of the five variants
CodecRecords ==
    { [report_id |-> REPORT_ID_NOP], [report_id |-> REPORT_ID_END] }
    \cup { [report_id |-> REPORT_ID_DELAY, duration |-> n] : n \in Durations }
    \cup { [report_id |-> REPORT_ID_MOUSE, buttons |-> b, x |-> x, y |-> y, wheel |-> w] :
             b \in Flags, x \in Deltas, y \in Deltas, w \in Flags }
    \cup { [report_id |-> REPORT_ID_KEYBOARD, modifiers |-> m, reserved |-> r,
            keys_down |-> <<k, 0, 0, 0, 0, l>>, leds |-> l] :
             m \in Flags, r \in {0, 1}, k \in {0, 4}, l \in Flags }

\* well-formed 16-byte inputs: the payload of the variant, the rest zero
CodecBytes ==
    { MkRecord(REPORT_ID_NOP, <<>>), MkRecord(REPORT_ID_END, <<>>) }
    \cup { MkRecord(REPORT_ID_DELAY, <<n>>) : n \in Durations }
    \cup { MkRecord(REPORT_ID_MOUSE, <<b, x, y, w>>) :
             b \in Flags, x \in Deltas, y \in Deltas, w \in Flags }
    \cup { MkRecord(REPORT_ID_KEYBOARD, <<m, r, k, 0, 0, 0, 0, l, l>>) :
             m \in Flags, r \in {0, 1}, k \in {0, 4}, l \in Flags }

CodecInit == Boot(<<>>)

CodecFrame == UNCHANGED <<cursor, store, typing_buf, packet_buffer, conv, reply, cmds, log,
                          history, sink, cdc>>

EncodeCall ==
    /\ codec = NoCodec
    /\ \E rec \in CodecRecords :
          codec' = [fn |-> "encode", given |-> rec, out |-> encode(rec), back |-> <<>>,
                    round |-> FALSE]
    /\ CodecFrame

DecodeCall ==
    /\ codec = NoCodec
    /\ \E buf \in CodecBytes :
          codec' = [fn |-> "decode", given |-> buf, out |-> decode(buf), back |-> <<>>,
                    round |-> FALSE]
    /\ CodecFrame

\* decode(encode(r))
DecodeBack ==
    /\ codec.fn = "encode" /\ ~codec.round
    /\ codec' = [codec EXCEPT !.back = decode(codec.out), !.round = TRUE]
    /\ CodecFrame

\* encode(decode(bytes))
EncodeBack ==
    /\ codec.fn = "decode" /\ ~codec.round
    /\ codec' = [codec EXCEPT !.back = encode(codec.out), !.round = TRUE]
    /\ CodecFrame

(***************************************************************************)
(* Specifications                                                          *)
(***************************************************************************)
\* the execution engine under the cursor commands
Next ==
    \/ Tick
    \/ CmdPause
    \/ CmdStep
    \/ CmdReset
    \/ CmdInvalid

Spec == Init /\ [][Next]_vars

\* the tick interrupt against a write command of the main loop
WriteNext ==
    \/ Tick
    \/ CmdWriteRaw
    \/ CmdWriteDucky
    \/ ProgramChunk

WriteSpec == Init /\ [][WriteNext]_vars

\* the store alone
StoreNext ==
    \/ StoreCall
    \/ ProgramChunk
    \/ StoreRead

StoreSpec == StoreInit /\ [][StoreNext]_vars

\* the jiggler command on a running script
JigglerNext ==
    \/ JigglerTick
    \/ CmdJiggler
    \/ ProgramChunk

JigglerSpec == JigglerInit /\ [][JigglerNext]_vars

\* the bytecode write of a long line on a device holding a script
OverrunNext ==
    \/ CmdWriteLong
    \/ ProgramChunk

OverrunSpec == StoreInit /\ [][OverrunNext]_vars

\* the converters alone
ConvertNext ==
    \/ DuckyCall
    \/ JigglerCall

ConvertSpec == ConvertInit /\ [][ConvertNext]_vars

\* the converters called one after the other
ReuseNext ==
    \/ DuckyCall
    \/ JigglerCall
    \/ DuckyAgain
    \/ JigglerAgain

ReuseSpec == ConvertInit /\ [][ReuseNext]_vars

\* scripts that begin with a delay of zero: the bytecode word 0x0000 alone,
\* and the delay before a keystroke
ZeroDelayImages ==
    { PageImage(Flatten(<<DelayRecord(0)>>)),
      PageImage(Flatten(<<DelayRecord(0), KeyRecord(2, 4)>>)) }

SinkInit == \E image \in BootImages \cup ZeroDelayImages : Boot(image)

\* the engine at an endpoint that can be busy, and the step command
SinkNext ==
    \/ Tick
    \/ TickBlocked
    \/ SinkReject
    \/ SinkAccept
    \/ CmdStep

SinkSpec == SinkInit /\ [][SinkNext]_vars

\* the engine alone, for ever: every tick comes, and an endpoint that is
\* busy accepts in the end
LoopNext ==
    \/ LoopTick
    \/ LoopBlocked
    \/ SinkReject
    \/ LoopAccept

LoopSpec == Init /\ [][LoopNext]_vars /\ WF_vars(LoopTick) /\ WF_vars(LoopAccept)

\* the three write commands on a device that runs a script, the ticks
\* taken between the commands
KeepTick ==
    /\ fpd.pc = "idle"
    /\ Tick

KeepNext ==
    \/ KeepTick
    \/ CmdWriteRaw
    \/ CmdWriteDucky
    \/ CmdJiggler
    \/ ProgramChunk

KeepSpec == JigglerInit /\ [][KeepNext]_vars

\* the cursor commands in the polling loop, the tick in its interrupt
PreemptNext ==
    \/ CmdBegin
    \/ PreemptTick
    \/ CmdEnd
    \/ IdleTick

PreemptSpec == Init /\ [][PreemptNext]_vars

\* the two callbacks at endpoints that can be busy: a busy endpoint accepts
\* in the end, the interrupt endpoint inside the tick, the serial endpoint
\* between ticks
BlockNext ==
    \/ LoopTick
    \/ LoopBlocked
    \/ SinkReject
    \/ LoopAccept
    \/ SendCall
    \/ SendStall
    \/ SendAccept

BlockSpec ==
    StoreInit /\ [][BlockNext]_vars /\ WF_vars(LoopAccept) /\ SF_vars(SendAccept)

\* the serial callback and its transmission
SerialNext ==
    \/ UsbOut
    \/ UsbOutFill
    \/ SendStall
    \/ SendAccept

SerialSpec == StoreInit /\ [][SerialNext]_vars

\* the host-side codec alone
CodecNext ==
    \/ EncodeCall
    \/ DecodeCall
    \/ DecodeBack
    \/ EncodeBack

CodecSpec == CodecInit /\ [][CodecNext]_vars

(***************************************************************************)
(* Properties of the execution engine (Spec).  A run is the ticks since    *)
(* the last command (or since power-up): start is the cursor the run       *)
(* began with, ticks their number, emitted what the sink received.         *)
(***************************************************************************)
Tag(i) == RecordAt(user_data, i)[1]

IsReport(i) == Tag(i) \in {REPORT_ID_KEYBOARD, REPORT_ID_MOUSE}

\* the 9 bytes of a keyboard report or the 5 bytes of a pointer report
ExpectedWire(rec) ==
    IF rec[1] = REPORT_ID_KEYBOARD THEN SubSeq(rec, 1, 9) ELSE SubSeq(rec, 1, 5)

\* number of Keyboard/Pointer records the script begins with
RECURSIVE LeadingReports(_)
LeadingReports(i) == IF i < PageRecords /\ IsReport(i) THEN LeadingReports(i + 1) ELSE i

\* the stored script is n Keyboard/Pointer records followed by End
ReportsThenEnd(n) == n = LeadingReports(0) /\ n < PageRecords /\ Tag(n) = REPORT_ID_END

\* ticks of a run move the cursor 0 -> 1 -> ... -> n -> 0 and emit the n
\* records in script order
Paced(n) ==
    ticks <= n + 1 =>
        /\ report_index = ticks % (n + 1)
        /\ emitted = [k \in 1..Min(ticks, n) |-> ExpectedWire(RecordAt(user_data, k - 1))]

\* C1 as stated: for a script of n Keyboard/Pointer records followed by End,
\* a run that starts at index 0, unpaused and not delaying moves the cursor
\* 0 -> 1 -> ... -> n -> 0 in n+1 ticks and emits exactly the n records
C1_PacingAsStated ==
    \A n \in 0..MaxScript :
        (ReportsThenEnd(n) /\ start.index = 0 /\ ~start.paused /\ ~start.delaying)
            => Paced(n)

\* C1 amended: the same, for a run that also starts with SingleStep clear
C1_Pacing ==
    \A n \in 0..MaxScript :
        (ReportsThenEnd(n) /\ start.index = 0 /\ ~start.paused /\ ~start.delaying
            /\ ~start.single_step)
            => Paced(n)

\* two records and End: the third tick has wrapped the cursor, two emits
C1_Witness ==
    /\ ReportsThenEnd(2)
    /\ start.index = 0 /\ ~start.paused /\ ~start.delaying /\ ~start.single_step
    /\ ticks = 3 /\ report_index = 0 /\ Len(emitted) = 2

\* C2: a run that starts unpaused and not delaying on a Delay(N) record,
\* N in 1..255, keeps the cursor there for N ticks, advances it by one on
\* tick N+1 with Delaying false again, and emits nothing in those ticks
C2_DelayHolds ==
    LET i == start.index
        N == RecordAt(user_data, i)[2]
    IN  (Tag(i) = REPORT_ID_DELAY /\ N \in 1..255 /\ ~start.paused /\ ~start.delaying)
            => /\ ticks <= N => (report_index = i /\ emitted = <<>>)
               /\ 1 <= ticks /\ ticks <= N => delaying
               /\ ticks = N + 1 => (report_index = i + 1 /\ emitted = <<>> /\ ~delaying)

\* Delay(3): the fourth tick has moved the cursor past it
C2_Witness ==
    /\ Tag(start.index) = REPORT_ID_DELAY /\ RecordAt(user_data, start.index)[2] = 3
    /\ ~start.paused /\ ~start.delaying
    /\ ticks = 4 /\ report_index = start.index + 1

\* C3: a run that starts with SingleStep set, paused or not, on a Keyboard or
\* Pointer record: its first tick emits that record, sets Paused, clears
\* SingleStep and advances the cursor by one; later ticks change nothing
C3_SingleStepTick ==
    (start.single_step /\ IsReport(start.index) /\ ticks >= 1)
        => /\ emitted = <<ExpectedWire(RecordAt(user_data, start.index))>>
           /\ paused /\ ~single_step
           /\ report_index = start.index + 1
           /\ delaying = start.delaying
           /\ delay_ticks_remaining = start.remaining

\* the step was taken while unpaused, and a second tick has followed
C3_Witness ==
    /\ start.single_step /\ ~start.paused /\ IsReport(start.index)
    /\ ticks = 2 /\ paused /\ Len(emitted) = 1

\* C4 as stated: once a step asked for while paused has completed (paused
\* again, SingleStep clear), exactly one record was emitted and the cursor
\* is one past where it was when the step was asked for
C4_StepAdvancesByOne ==
    (start.paused /\ start.single_step /\ ticks >= 1 /\ paused /\ ~single_step)
        => (Len(emitted) = 1 /\ report_index = start.index + 1)

\* C5: a tick taken with Paused set and SingleStep clear changes no cursor
\* field and emits nothing, whatever record is at the cursor
C5_PausedTickNoOp ==
    (start.paused /\ ~start.single_step)
        => /\ Snapshot(report_index, paused, single_step, delaying,
                       delay_ticks_remaining) = start
           /\ emitted = <<>>

\* paused on a record that would be emitted, and ticks have come
C5_Witness ==
    /\ start.paused /\ ~start.single_step
    /\ ticks >= 2 /\ IsReport(report_index)

(***************************************************************************)
(* Properties of a write command under the tick interrupt (WriteSpec).     *)
(* Between the erase and the return fpd.pc is "program"; the run began     *)
(* when the erase was done.                                                *)
(***************************************************************************)
\* the script the write command is programming, completely programmed
TargetImage == PageImage(SubSeq(fpd.input_data, 1, RoundUp4(fpd.num_elements)))

\* what the sink may receive from a completely programmed script
TargetWires ==
    { ExpectedWire(RecordAt(TargetImage, j)) : j \in 0..(Len(TargetImage) \div RecordSize) }

\* C6 as stated: every report handed to the sink while a write command is
\* programming the script is, in its 9 or 5 bytes, a report of the completely
\* programmed script
C6_NoHalfWrittenReport ==
    fpd.pc = "program" => \A k \in 1..Len(emitted) : emitted[k] \in TargetWires

\* C7 as stated: a tick comes between the erase and the return of the
\* program operation only if the engine was paused, SingleStep clear, from
\* the erase on, so that no tick reads a record
C7_NoTickDuringProgram ==
    (fpd.pc = "program" /\ ticks >= 1) => (start.paused /\ ~start.single_step)

(***************************************************************************)
(* Properties of the store (StoreSpec): one call of flash_program_data on  *)
(* the flash holding OldImage, flash_read_data after it.                   *)
(***************************************************************************)
Returned == fpd.pc = "idle" /\ fpd.statuses # <<>>

\* byte offsets of the chunks the call was asked to program
ChunkOffsets == { off \in 0..(RoundUp4(fpd.num_elements) - 1) : off % 4 = 0 }

ChunkVerifies(off) == WordAt(user_data, off) = InputWord(fpd.input_data, off)

\* C8 as stated: the call returns RESULT_OK only if the medium reported
\* success each time (the erase and every chunk) and every chunk of the
\* requested length was programmed and reads back equal to the input
C8_OkOnlyAfterEveryChunk ==
    (Returned /\ result = RESULT_OK)
        => /\ \A k \in 1..Len(fpd.statuses) : fpd.statuses[k] = FLASH_SR_EOP
           /\ Len(fpd.statuses) = 1 + Cardinality(ChunkOffsets)
           /\ \A off \in ChunkOffsets : ChunkVerifies(off)

\* C9 as stated: for a length that is a multiple of 4, a call that returned
\* Ok is followed by a read of that length returning exactly the data; and
\* a call in which a programmed chunk reads back different returned 0x80
C9_RoundTrip ==
    (Returned /\ fpd.num_elements % 4 = 0)
        => /\ (result = RESULT_OK /\ Len(read_out) = fpd.num_elements)
                => read_out = SubSeq(fpd.input_data, 1, fpd.num_elements)
           /\ (Len(fpd.statuses) >= 2 /\ \E off \in ChunkOffsets :
                    off <= fpd.iter /\ ~ChunkVerifies(off))
                => result = FLASH_WRONG_DATA_WRITTEN

\* C10: from the successful erase on, every byte of the block is the byte
\* of the new data at that offset or the erased value 0xFF
C10_OldScriptDestroyed ==
    (fpd.statuses # <<>> /\ fpd.statuses[1] = FLASH_SR_EOP)
        => \A off \in 0..(FLASH_PAGE_SIZE - 1) :
              \/ ByteAt(user_data, off) = 255
              \/ off < Len(fpd.input_data) /\ ByteAt(user_data, off) = fpd.input_data[off + 1]

\* a new script shorter than the old one was programmed and verified: the
\* old tail reads as End records
C10_Witness ==
    /\ Returned /\ fpd.statuses[1] = FLASH_SR_EOP /\ result = RESULT_OK
    /\ fpd.num_elements > 0 /\ fpd.num_elements < Len(OldImage)
    /\ \A i \in 1..2 : RecordAt(user_data, i)[1] = REPORT_ID_END

(***************************************************************************)
(* Properties of the command processor.  A step dispatches a line when it  *)
(* counts one more command; the first character of typing_buf is then the  *)
(* command character.                                                      *)
(***************************************************************************)
Dispatched(c) == cmds' = cmds + 1 /\ CharAt(typing_buf', 0) = c

\* the newest entry of the log: the last command, none since the last tick
LastCmd == log[Len(log)]

\* C11 as stated: when a write command has returned, the reply is "wrote
\* flash" exactly for the result Ok, "wrong data written" exactly for 0x80
\* and "error writing flash" for every other result; and "wrote flash" is
\* never the reply of a program in which the medium reported a fault or a
\* chunk does not read back equal to the input
C11_ThreeWayReply ==
    Returned =>
        /\ (reply = "wrote flash") <=> (result = RESULT_OK)
        /\ (reply = "wrong data written") <=> (result = FLASH_WRONG_DATA_WRITTEN)
        /\ (reply = "error writing flash")
              <=> (result \notin {RESULT_OK, FLASH_WRONG_DATA_WRITTEN})
        /\ (reply = "wrote flash") =>
              /\ \A k \in 1..Len(fpd.statuses) : fpd.statuses[k] = FLASH_SR_EOP
              /\ \A off \in ChunkOffsets : ChunkVerifies(off)

\* C12: every step that dispatches a 'z' line sets the cursor index to 0 and
\* replies with the empty string, and leaves Paused, SingleStep, Delaying,
\* the countdown and the script as they were
C12_Reset ==
    [][Dispatched(Chr.z) =>
          /\ report_index' = 0
          /\ reply' = ""
          /\ UNCHANGED <<paused, single_step, delaying, delay_ticks_remaining, user_data>>
      ]_vars

\* the reset found the cursor on a later record in the middle of a delay
C12_Witness ==
    /\ log # <<>> /\ LastCmd.cmd = Chr.z
    /\ LastCmd.was.index > 0 /\ LastCmd.was.delaying /\ LastCmd.was.remaining > 0
    /\ report_index = 0 /\ delaying /\ reply = ""

\* C13: every step that dispatches a line whose first character is none of
\* v ? w d j r @ p s z replies "invalid command, try ? for help" and leaves
\* the script and the five cursor fields as they were
C13_InvalidCommand ==
    [][(cmds' = cmds + 1 /\ CharAt(typing_buf', 0) \notin CommandChars) =>
          /\ reply' = "invalid command, try ? for help"
          /\ UNCHANGED <<report_index, paused, single_step, delaying,
                         delay_ticks_remaining, user_data>>
      ]_vars

\* an empty line arrived while the engine was running in the middle of a
\* delay on a later record
C13_Witness ==
    /\ log # <<>> /\ LastCmd.cmd \in Terminators
    /\ reply = "invalid command, try ? for help"
    /\ report_index > 0 /\ ~paused /\ delaying /\ delay_ticks_remaining > 0
    /\ LastCmd.was = Snapshot(report_index, paused, single_step, delaying,
                              delay_ticks_remaining)

\* C14: every step that dispatches a 'p' line inverts Paused, replies
\* "paused" exactly when the new value is true and "resumed" exactly when it
\* is false, and leaves the cursor index, SingleStep and Delaying as they
\* were; when the command before it was also 'p' and no tick came in
\* between, Paused is again what the first of the two found
C14_PauseToggle ==
    [][Dispatched(Chr.p) =>
          /\ paused' = ~paused
          /\ (reply' = "paused") <=> paused'
          /\ (reply' = "resumed") <=> ~paused'
          /\ UNCHANGED <<report_index, single_step, delaying>>
          /\ (log # <<>> /\ LastCmd.cmd = Chr.p) => paused' = LastCmd.was.paused
      ]_vars

\* two toggles in a row on a running script: running again
C14_Witness ==
    /\ Len(log) = 2 /\ log[1].cmd = Chr.p /\ log[2].cmd = Chr.p
    /\ ~log[1].was.paused /\ log[2].was.paused
    /\ ~paused /\ reply = "resumed"
    /\ report_index > 0

\* C15: when the polling loop is entered (no command, no tick yet) the
\* cursor index is 0, SingleStep and Delaying are false, and Paused is true
\* exactly when the first stored record has the End tag
C15_Startup ==
    (cmds = 0 /\ ticks = 0) =>
        /\ report_index = 0
        /\ ~single_step
        /\ ~delaying
        /\ paused <=> (Tag(0) = REPORT_ID_END)

\* power-up on a page whose first record is a NoOp: running
C15_Witness ==
    /\ cmds = 0 /\ ticks = 0
    /\ Tag(0) = REPORT_ID_NOP /\ ~paused

(***************************************************************************)
(* Properties of the converters (ConvertSpec): conv holds the arguments    *)
(* and the return value of the last call, packet_buffer its output.        *)
(***************************************************************************)
\* the 2-byte words of the bytecode: floor(len / 2) of them
Words == conv.len \div 2

\* low and high byte of word w (counted from 1)
Low(w) == conv.buf[2 * w - 1]
High(w) == conv.buf[2 * w]

IsKeystroke(w) == Low(w) # 0

\* records the words before word w decode to
RECURSIVE RecordsBefore(_)
RecordsBefore(w) ==
    IF w <= 1 THEN 0
    ELSE RecordsBefore(w - 1) + (IF IsKeystroke(w - 1) THEN 2 ELSE 1)

\* the first n bytes of packet_buffer[j]
Fields(j, n) == SubSeq(Slot(packet_buffer, j), 1, n)

\* tags of the records the call returned
ReturnedTags == [j \in 1..conv.records |-> Slot(packet_buffer, j - 1)[1]]

\* tags the words decode to, in input order
RECURSIVE WordTags(_)
WordTags(w) ==
    IF w = 0 THEN <<>>
    ELSE WordTags(w - 1) \o (IF IsKeystroke(w) THEN <<REPORT_ID_KEYBOARD, REPORT_ID_KEYBOARD>>
                              ELSE <<REPORT_ID_DELAY>>)

\* C16: every word with a non-zero low byte has become two consecutive
\* Keyboard records: a press (modifiers = high byte, reserved = 1, first key
\* = low byte, other keys and LEDs zero) and a release (modifiers, the six
\* keys and LEDs zero, reserved = 1)
C16_KeystrokeExpansion ==
    conv.fn = "ducky" =>
        \A w \in 1..Words :
            IsKeystroke(w) =>
                /\ Fields(RecordsBefore(w), 10)
                      = <<REPORT_ID_KEYBOARD, High(w), 1, Low(w), 0, 0, 0, 0, 0, 0>>
                /\ Fields(RecordsBefore(w) + 1, 10)
                      = <<REPORT_ID_KEYBOARD, 0, 1, 0, 0, 0, 0, 0, 0, 0>>

\* word 0x0207 after a delay word: press modifier 2, key 7, then release
C16_Witness ==
    /\ conv.fn = "ducky" /\ conv.buf = <<0, 2, 7, 2>> /\ conv.records = 4
    /\ Fields(1, 4) = <<REPORT_ID_KEYBOARD, 2, 1, 7>>
    /\ Fields(2, 4) = <<REPORT_ID_KEYBOARD, 0, 1, 0>>

\* C17: every word with low byte 0 and high byte N has become one Delay
\* record with duration byte N, and the Keyboard records returned are only
\* the two of each keystroke word
C17_DelayEncoding ==
    conv.fn = "ducky" =>
        /\ \A w \in 1..Words :
              ~IsKeystroke(w) => Fields(RecordsBefore(w), 2) = <<REPORT_ID_DELAY, High(w)>>
        /\ Cardinality({ j \in 1..conv.records : ReturnedTags[j] = REPORT_ID_KEYBOARD })
              = 2 * Cardinality({ w \in 1..Words : IsKeystroke(w) })

\* word 0x0000 and word 0x0700: Delay(0), Delay(7), End
C17_Witness ==
    /\ conv.fn = "ducky" /\ conv.buf = <<0, 0, 0, 7>> /\ conv.records = 3
    /\ Fields(0, 2) = <<REPORT_ID_DELAY, 0>>
    /\ Fields(1, 2) = <<REPORT_ID_DELAY, 7>>

\* C18: a call with a buffer of L bytes decodes floor(L/2) words and returns
\* 2k + d + 1 records for k keystroke and d delay words, their tags in input
\* order; the last record is End and no earlier one is
C18_OutputShape ==
    conv.fn = "ducky" =>
        LET k == Cardinality({ w \in 1..Words : IsKeystroke(w) })
            d == Cardinality({ w \in 1..Words : ~IsKeystroke(w) })
        IN  /\ k + d = conv.len \div 2
            /\ conv.records = 2 * k + d + 1
            /\ ReturnedTags = WordTags(Words) \o <<REPORT_ID_END>>
            /\ \A j \in 1..(conv.records - 1) : ReturnedTags[j] # REPORT_ID_END

\* three bytes: one keystroke word, the trailing byte dropped
C18_Witness ==
    /\ conv.fn = "ducky" /\ conv.len = 3 /\ conv.buf = <<7, 2, 7>>
    /\ conv.records = 3
    /\ ReturnedTags = <<REPORT_ID_KEYBOARD, REPORT_ID_KEYBOARD, REPORT_ID_END>>

\* an X delta read as a signed 8-bit value
Signed(b) == IF b >= 128 THEN b - 256 ELSE b

\* sum of the X deltas of packet_buffer[0 .. n-1]
RECURSIVE DeltaSum(_)
DeltaSum(n) == IF n = 0 THEN 0 ELSE DeltaSum(n - 1) + Signed(Slot(packet_buffer, n - 1)[3])

\* C19: a call with width w returns 2w + 1 records: w Pointer records with X
\* delta 1, then w with X delta 0xFF, all with buttons, Y and wheel zero,
\* then End; the X deltas read as signed bytes sum to zero
C19_JigglerSymmetry ==
    conv.fn = "jiggler" =>
        LET w == conv.width
        IN  /\ conv.records = 2 * w + 1
            /\ \A j \in 0..(w - 1) : Fields(j, 5) = <<REPORT_ID_MOUSE, 0, 1, 0, 0>>
            /\ \A j \in w..(2 * w - 1) : Fields(j, 5) = <<REPORT_ID_MOUSE, 0, 255, 0, 0>>
            /\ Fields(2 * w, 1) = <<REPORT_ID_END>>
            /\ DeltaSum(2 * w) = 0

\* the width of the 'j' command: 61 records
C19_Witness ==
    /\ conv.fn = "jiggler" /\ conv.width = JigglerWidth /\ conv.records = 61
    /\ Fields(29, 3) = <<REPORT_ID_MOUSE, 0, 1>>
    /\ Fields(30, 3) = <<REPORT_ID_MOUSE, 0, 255>>

(***************************************************************************)
(* Properties of the jiggler command (JigglerSpec): the run that begins    *)
(* when the write returns.                                                 *)
(***************************************************************************)
\* sum of the X deltas of the pointer reports handed to the sink in the run
RECURSIVE EmittedDeltaSum(_)
EmittedDeltaSum(n) ==
    IF n = 0 THEN 0
    ELSE EmittedDeltaSum(n - 1)
         + (IF emitted[n][1] = REPORT_ID_MOUSE THEN Signed(emitted[n][3]) ELSE 0)

\* C20 as stated: after a successful jiggler write, with the engine running
\* and no further command, whenever ticks have brought the cursor to index 0
\* the X deltas emitted since the write sum to zero, wherever the cursor was
\* when the jiggler was written
C20_JigglerKeepsPosition ==
    (JigglerWritten /\ user_data = TargetImage /\ ~start.paused /\ ticks >= 1
        /\ report_index = 0)
        => EmittedDeltaSum(Len(emitted)) = 0

(***************************************************************************)
(* Properties of the write lines (WriteSpec).  After the first command     *)
(* typing_buf is the line as it was typed: command character, hex digits,  *)
(* terminator.                                                             *)
(***************************************************************************)
\* a write command of the given character was the first line and has called
\* the store
FirstLineWrote(c) == cmds = 1 /\ CharAt(typing_buf, 0) = c /\ fpd.statuses # <<>>

\* hex digits between the command character and the terminator
LineDigits == Len(typing_buf) - 2

\* the line without the last of its digits
EvenLine ==
    SubSeq(typing_buf, 1, Len(typing_buf) - 2) \o <<typing_buf[Len(typing_buf)]>>

\* what the first line, had it been the given one, hands to the store
RawCall(line) ==
    [input_data |-> Binary(line, Len(line)), num_elements |-> Len(line) \div 2]

DuckyCallOf(line) ==
    LET gen == convert_ducky_binary(unhexify(line, Len(line)), Len(line) \div 2, <<>>)
    IN  [input_data |-> Flatten(gen.out), num_elements |-> gen.records * RecordSize]

\* C21 as stated: a raw write line of 2n hex digits hands the length n to
\* the store, and the first n bytes of the buffer are the n decoded bytes
C21_RawWriteLength ==
    (FirstLineWrote(Chr.w) /\ LineDigits % 2 = 0) =>
        /\ fpd.num_elements = LineDigits \div 2
        /\ SubSeq(fpd.input_data, 1, LineDigits \div 2)
              = unhexify(typing_buf, LineDigits \div 2)

\* C22 as stated: a raw or bytecode write line of 2n+1 hex digits hands to
\* the store the same length and the same bytes as the line made of its
\* first 2n digits
C22_OddDigitDropped ==
    /\ (FirstLineWrote(Chr.w) /\ LineDigits % 2 = 1) =>
          /\ fpd.num_elements = RawCall(EvenLine).num_elements
          /\ fpd.input_data = RawCall(EvenLine).input_data
    /\ (FirstLineWrote(Chr.d) /\ LineDigits % 2 = 1) =>
          /\ fpd.num_elements = DuckyCallOf(EvenLine).num_elements
          /\ fpd.input_data = DuckyCallOf(EvenLine).input_data

(***************************************************************************)
(* Properties of the record codec (CodecSpec)                              *)
(***************************************************************************)
\* C23 as stated: for every valid record r of the five variants,
\* decode(encode(r)) is r, field for field
C23_RecordRoundTrip ==
    (codec.fn = "encode" /\ codec.round) => codec.back = codec.given

\* C24 as stated: for every well-formed 16-byte input, encode(decode(bytes))
\* is the input, byte for byte
C24_BytesRoundTrip ==
    (codec.fn = "decode" /\ codec.round) => codec.back = codec.given

(***************************************************************************)
(* Properties of single ticks (Spec).  A step is a tick when it counts one *)
(* more tick of the run.                                                   *)
(***************************************************************************)
TickStep == ticks' = ticks + 1

\* the tick returns at once: paused and not stepping
Suppressed == paused /\ ~single_step

\* C25: every tick hands at most one report to the sink and leaves the
\* cursor index unchanged, increases it by exactly one or resets it to 0;
\* on a Delay record whose countdown is running and does not expire with
\* this tick the index is unchanged
C25_OneStepPerTick ==
    [][TickStep =>
          /\ \/ emitted' = emitted
             \/ /\ Len(emitted') = Len(emitted) + 1
                /\ SubSeq(emitted', 1, Len(emitted)) = emitted
          /\ report_index' \in {report_index, report_index + 1, 0}
          /\ (delaying /\ Tag(report_index) = REPORT_ID_DELAY /\ delay_ticks_remaining > 1)
                => report_index' = report_index
      ]_vars

\* one report, then a delay latched and counted down once: the cursor has
\* advanced by one and holds
C25_Witness ==
    /\ start.index = 0 /\ ticks = 3
    /\ Len(emitted) = 1 /\ report_index = 1
    /\ delaying /\ delay_ticks_remaining = 2

\* C26 as stated: whenever Delaying is true the record at the cursor is a
\* Delay record and the countdown is within the duration latched from it
C26_DelayTiedToCursor ==
    delaying =>
        /\ Tag(report_index) = REPORT_ID_DELAY
        /\ delay_ticks_remaining <= RecordAt(user_data, report_index)[2]

\* C27: a tick that is not suppressed and finds a record whose tag is none
\* of 0, 1, 2, 254 at the cursor sets the index to 0, emits nothing and
\* leaves Paused, SingleStep, Delaying and the countdown as they were
C27_UnknownTagWraps ==
    [][(TickStep /\ ~Suppressed
            /\ Tag(report_index) \notin {REPORT_ID_NOP, REPORT_ID_KEYBOARD, REPORT_ID_MOUSE,
                                         REPORT_ID_DELAY}) =>
          /\ report_index' = 0
          /\ emitted' = emitted
          /\ UNCHANGED <<paused, single_step, delaying, delay_ticks_remaining>>
      ]_vars

\* a report, then a record with tag 7: the second tick has wrapped the cursor
C27_Witness ==
    /\ Tag(1) = UnknownTag /\ IsReport(0)
    /\ start.index = 0 /\ ~start.paused /\ ~start.single_step
    /\ ticks = 2 /\ report_index = 0 /\ Len(emitted) = 1

\* C28: in a run that begins on a NoOp record, not suppressed by pause, no
\* tick changes a cursor field or emits anything: the engine is still on
\* that record after every tick of the run
C28_NoOpHolds ==
    (Tag(start.index) = REPORT_ID_NOP /\ ~(start.paused /\ ~start.single_step)) =>
        /\ Snapshot(report_index, paused, single_step, delaying, delay_ticks_remaining)
              = start
        /\ emitted = <<>>

\* running on a NoOp that follows a report, three ticks later
C28_Witness ==
    /\ Tag(start.index) = REPORT_ID_NOP /\ start.index = 1
    /\ ~start.paused /\ ~start.single_step
    /\ ticks >= 3 /\ report_index = 1

(***************************************************************************)
(* The cursor and the stored script under write commands (WriteSpec)       *)
(***************************************************************************)
\* index of the first record from i on whose tag is End or unknown; the
\* number of records of the page when there is none
RECURSIVE FirstStopFrom(_)
FirstStopFrom(i) ==
    IF i >= PageRecords
       \/ Tag(i) \notin {REPORT_ID_NOP, REPORT_ID_KEYBOARD, REPORT_ID_MOUSE, REPORT_ID_DELAY}
    THEN i
    ELSE FirstStopFrom(i + 1)

\* C29 as stated: in every reachable state the cursor index is at most the
\* index of the first End or unknown-tag record of the stored script, and
\* below the number of records of the region
C29_CursorInsideScript ==
    /\ report_index <= FirstStopFrom(0)
    /\ report_index < PageRecords

(***************************************************************************)
(* The abort path of the store (StoreSpec)                                 *)
(***************************************************************************)
\* the call returned from inside the loop, at the chunk at offset fpd.iter
Aborted == Returned /\ Len(fpd.statuses) >= 2 /\ fpd.iter < fpd.num_elements

\* C30: a call that returns on an erase fault has programmed no chunk and
\* returns the status; a call that returns on a chunk returns the status
\* when that is a fault, whether or not the chunk reads back equal, and 0x80
\* when the status is success and the chunk reads back different; the
\* medium was asked for no further chunk and every byte after the failing
\* chunk holds the erased value
C30_AbortAtFirstFailure ==
    LET n == Len(fpd.statuses)
    IN  /\ (Returned /\ fpd.statuses[1] # FLASH_SR_EOP) =>
              /\ n = 1
              /\ result = fpd.statuses[1]
              /\ user_data = OldImage
        /\ Aborted =>
              /\ n = 2 + fpd.iter \div 4
              /\ \A k \in 1..(n - 1) : fpd.statuses[k] = FLASH_SR_EOP
              /\ result = (IF fpd.statuses[n] # FLASH_SR_EOP THEN fpd.statuses[n]
                           ELSE FLASH_WRONG_DATA_WRITTEN)
              /\ fpd.statuses[n] = FLASH_SR_EOP => ~ChunkVerifies(fpd.iter)
              /\ \A off \in (fpd.iter + 4)..(FLASH_PAGE_SIZE - 1) : ByteAt(user_data, off) = 255

\* a fault reported on the second of three chunks although the word reads
\* back equal: the status is returned and the third chunk is still erased
C30_Witness ==
    /\ Aborted /\ fpd.iter = 4 /\ fpd.num_elements > 8
    /\ fpd.statuses = <<FLASH_SR_EOP, FLASH_SR_EOP, 4>>
    /\ ChunkVerifies(4) /\ result = 4
    /\ InputWord(fpd.input_data, 8) # <<255, 255, 255, 255>>
    /\ WordAt(user_data, 8) = <<255, 255, 255, 255>>

(***************************************************************************)
(* The extent of a write (OverrunSpec)                                     *)
(***************************************************************************)
\* C31 as stated: the records a write command produced fit the 64 records
\* of packet_buffer, the length handed to flash_program_data is at most the
\* 1024 bytes of the erased block, and no byte beyond the block was
\* programmed
C31_WriteInsideErasedBlock ==
    /\ conv.records <= PacketBufferRecords
    /\ fpd.num_elements <= FLASH_PAGE_SIZE
    /\ Len(user_data) <= FLASH_PAGE_SIZE

(***************************************************************************)
(* The scratch buffer over several calls (ReuseSpec)                       *)
(***************************************************************************)
\* bytes of a record that belong to its variant's payload, the tag included
PayloadBytes(tag) ==
    CASE tag = REPORT_ID_KEYBOARD -> 10
      [] tag = REPORT_ID_MOUSE -> 5
      [] tag = REPORT_ID_DELAY -> 2
      [] OTHER -> 1

\* C32 as stated: every record the last call returned is zero in all bytes
\* outside its variant's payload (Delay: bytes 2..15, End: bytes 1..15,
\* Pointer: bytes 5..15, Keyboard: bytes 10..15), whatever the calls before
\* generated
C32_ZeroOnGeneration ==
    \A j \in 0..(conv.records - 1) :
        LET rec == Slot(packet_buffer, j)
        IN  \A k \in (PayloadBytes(rec[1]) + 1)..RecordSize : rec[k] = 0

(***************************************************************************)
(* Properties of the serial callback (SerialSpec): cdc.stream holds every  *)
(* character received so far, cdc.lines the lines handed to                *)
(* process_serial_command, cdc.buf the last packet and cdc.reply_buf what  *)
(* the callback handed to send_chunked_blocking for it                     *)
(***************************************************************************)
\* C33 as stated: the characters accumulated for the current line are never
\* more than the 2048 of typing_buf, and no character is stored past its end
C33_TypingBounded ==
    /\ cdc.typing_index <= TypingCapacity
    /\ Len(typing_buf) <= TypingCapacity

\* positions of the terminators in a sequence of characters
Ends(chars) == { i \in 1..Len(chars) : chars[i] \in Terminators }

\* the last terminator before position i, 0 when there is none
EndBefore(chars, i) ==
    LET before == { t \in Ends(chars) : t < i }
    IN  IF before = {} THEN 0 ELSE CHOOSE t \in before : \A u \in before : u <= t

\* the k-th terminator of a sequence of characters
EndOfLine(chars, k) ==
    CHOOSE t \in Ends(chars) : Cardinality({ u \in Ends(chars) : u <= t }) = k

\* C34 as stated: one line was dispatched for each terminator received, its
\* characters those received since the terminator before, however they were
\* split into packets; typing_index counts the characters received since
\* the last terminator (0 right after a dispatch); and what was handed to
\* the transport for the last packet is, character by character, the echo,
\* and for a terminator the response of its line and then the prompt
C34_LineAssembly ==
    LET all == cdc.stream
        n == Cardinality(Ends(cdc.buf))
    IN  /\ Len(cdc.lines) = Cardinality(Ends(all))
        /\ \A k \in 1..Len(cdc.lines) :
              LET e == EndOfLine(all, k)
                  b == EndBefore(all, e) + 1
              IN  /\ cdc.lines[k].buf = SubSeq(all, b, e)
                  /\ cdc.lines[k].len = e - b + 1
        /\ cdc.typing_index = Len(all) - EndBefore(all, Len(all) + 1)
        /\ cdc.pc # "fault"
        /\ Len(cdc.reply_buf) = Len(cdc.buf)
        /\ \A i \in 1..Len(cdc.reply_buf) :
              LET c == cdc.buf[i]
                  r == cdc.reply_buf[i]
                  m == Cardinality({ u \in Ends(cdc.buf) : u <= i })
              IN  /\ r.echo = (IF c = Chr.cr THEN <<Chr.lf, Chr.cr>> ELSE <<c>>)
                  /\ IF c \in Terminators
                     THEN /\ r.response = cdc.lines[Len(cdc.lines) - n + m].response
                          /\ r.prompt = Prompt
                     ELSE r.response = "" /\ r.prompt = <<>>

(***************************************************************************)
(* Properties of the engine at a busy endpoint (SinkSpec): sink.pc is      *)
(* "emit" while the handler is in its write loop and sink.rejected counts  *)
(* the calls of the current activation that returned 0                     *)
(***************************************************************************)
\* C35: while the write of a Keyboard or Pointer record is refused and
\* retried no cursor field changes and nothing is delivered; the call that
\* is accepted delivers the record once and leaves index + 1, Paused and
\* SingleStep per the single-step rule and Delaying and the countdown as
\* they were, which is what a tick accepted at the first call leaves
C35_RetryKeepsState ==
    [][/\ sink'.pc = "emit" => UNCHANGED <<cursor, emitted>>
       /\ (sink.pc = "emit" /\ sink'.pc = "idle") =>
             /\ emitted' = Append(emitted, ExpectedWire(RecordAt(user_data, report_index)))
             /\ report_index' = report_index + 1
             /\ paused' = (paused \/ single_step)
             /\ single_step' = FALSE
             /\ UNCHANGED <<delaying, delay_ticks_remaining, user_data>>
      ]_vars

\* the first record was refused MaxRejects times and then accepted
C35_Witness ==
    /\ sink.pc = "idle" /\ sink.rejected = MaxRejects
    /\ ticks = 1 /\ Len(emitted) = 1 /\ report_index = start.index + 1

\* C40: a run that starts unpaused and not delaying on a Delay record of
\* duration 0 holds the cursor on it through the first tick, which latches
\* a countdown of 0 and sets Delaying, and leaves it with the second, whose
\* decrement to -1 counts as expired: Delaying is false, the cursor is one
\* further and nothing was emitted
C40_DelayZero ==
    LET i == start.index
    IN  (Tag(i) = REPORT_ID_DELAY /\ RecordAt(user_data, i)[2] = 0
            /\ ~start.paused /\ ~start.delaying)
            => /\ ticks = 0 => report_index = i
               /\ ticks = 1 => (report_index = i /\ delaying /\ delay_ticks_remaining = 0)
               /\ ticks = 2 => (report_index = i + 1 /\ ~delaying
                                   /\ delay_ticks_remaining = 0 - 1 /\ emitted = <<>>)

\* Delay(0) at the start of the script, two ticks later
C40_Witness ==
    /\ Tag(start.index) = REPORT_ID_DELAY /\ RecordAt(user_data, start.index)[2] = 0
    /\ ~start.paused /\ ~start.delaying
    /\ ticks = 2 /\ report_index = start.index + 1 /\ ~delaying

(***************************************************************************)
(* Properties of the engine left to run (LoopSpec): no command arrives,    *)
(* every tick comes and a busy endpoint accepts in the end                 *)
(***************************************************************************)
\* the first End record is at e: before it only Keyboard, Pointer and Delay
EndAt(e) ==
    /\ Tag(e) = REPORT_ID_END
    /\ \A j \in 0..(e - 1) :
          Tag(j) \in {REPORT_ID_KEYBOARD, REPORT_ID_MOUSE, REPORT_ID_DELAY}

\* record i is a Keyboard or Pointer record before that End
LoopsOver(i) == IsReport(i) /\ \E e \in (i + 1)..MaxScript : EndAt(e)

\* the record at i is accepted by the sink and the cursor moves past it
EmitOf(i) ==
    /\ report_index = i /\ report_index' = i + 1
    /\ emitted' = <<ExpectedWire(RecordAt(user_data, i))>>

\* the cursor comes back to 0 from further on in the script
BackToStart == report_index # 0 /\ report_index' = 0

\* C39: unpaused, SingleStep clear, the script up to its first End made of
\* Keyboard, Pointer and Delay records only: the cursor returns to 0 again
\* and again, and each Keyboard and Pointer record before the End is
\* emitted again and again
C39_ScriptLoops ==
    /\ (~paused /\ ~single_step /\ \E e \in 1..MaxScript : EndAt(e))
          => []<><<BackToStart>>_vars
    /\ \A i \in 0..(MaxScript - 1) :
          (~paused /\ ~single_step /\ LoopsOver(i)) => []<><<EmitOf(i)>>_vars

\* a script with a delay and a report before its End has wrapped MaxWraps
\* times, the endpoint busy at the last emit
C39_Witness ==
    /\ \E e \in 2..MaxScript :
          /\ EndAt(e)
          /\ \E i, d \in 0..(e - 1) : IsReport(i) /\ Tag(d) = REPORT_ID_DELAY
    /\ sink.wraps = MaxWraps /\ sink.rejected > 0
    /\ report_index = 0

(***************************************************************************)
(* Properties of the two blocking loops (BlockSpec)                        *)
(***************************************************************************)
\* the offsets 0 .. n - 1 in order
Offsets(n) == [k \in 1..n |-> k - 1]

\* C36: a tick whose write is refused returns once the endpoint accepts;
\* send_chunked_blocking returns once the endpoint has taken bytes often
\* enough, and then every one of the len bytes was delivered once, in
\* order; until then the bytes delivered are the first total_bytes_written
\* and bytes_remaining are left; no write hands over more than
\* CDCACM_PACKET_SIZE bytes
C36_LoopsTerminate ==
    /\ (sink.pc = "emit") ~> (sink.pc = "idle")
    /\ (cdc.pc = "send") ~> (cdc.pc = "idle" /\ cdc.delivered = Offsets(cdc.len))
    /\ [](/\ cdc.delivered = Offsets(cdc.total_bytes_written)
          /\ cdc.total_bytes_written + cdc.bytes_remaining = cdc.len
          /\ cdc.pc = "idle" => cdc.bytes_remaining = 0)
    /\ [][Len(cdc'.delivered) <= Len(cdc.delivered) + CDCACM_PACKET_SIZE]_vars

\* the last of MaxChunks replies, longer than a packet, went out whole
C36_Witness ==
    /\ cdc.pc = "idle" /\ cdc.len > CDCACM_PACKET_SIZE
    /\ Len(cdc.delivered) = cdc.len
    /\ cdc.chunks = MaxChunks

(***************************************************************************)
(* Properties of the interrupted cursor commands (PreemptSpec): start is   *)
(* the cursor the command found at its entry, ticks the ticks since        *)
(***************************************************************************)
\* the cursor fields as they are
Cursor == Snapshot(report_index, paused, single_step, delaying, delay_ticks_remaining)

\* C37: when a pause, step or reset command has returned, the cursor is the
\* one the command alone leaves if no tick came since its entry, and if one
\* came it is the cursor of the tick followed by the command or of the
\* command followed by the tick
C37_CommandsAtomic ==
    (cdc.pc = "idle" /\ log # <<>> /\ LastCmd.cmd \in {Chr.p, Chr.s, Chr.z})
        => LET c == LastCmd.cmd
           IN  IF ticks = 0 THEN Cursor = Command(c, start).cur
               ELSE Cursor \in { Command(c, TickOf(start)).cur, TickOf(Command(c, start).cur) }

\* the pause command loaded Paused = FALSE, a tick then took the step asked
\* for and set Paused, and the command stored TRUE: the order command, tick
C37_Witness ==
    /\ cdc.pc = "idle" /\ log # <<>> /\ LastCmd.cmd = Chr.p
    /\ ticks = 1 /\ ~start.paused /\ start.single_step /\ IsReport(start.index)
    /\ paused /\ ~single_step /\ report_index = start.index + 1

(***************************************************************************)
(* The cursor across the write commands (KeepSpec)                         *)
(***************************************************************************)
\* C38: the dispatch of a raw write, a bytecode write or a jiggler write and
\* every step of its store call, whatever the statuses of the medium,
\* change none of index, Paused, SingleStep, Delaying and the countdown;
\* a tick, also the first one after the write, acts on the record the page
\* now holds at the index the cursor has
C38_WritesKeepCursor ==
    [][/\ (cmds' # cmds \/ fpd' # fpd) => Cursor' = Cursor
       /\ TickStep => Cursor' = TickOf(Cursor)
      ]_vars

\* the jiggler write made after two ticks has returned Ok and replaced the
\* script: the cursor is where the old script had brought it
C38_Witness ==
    /\ JigglerWritten
    /\ Cursor = start /\ report_index = 2
    /\ ticks = 0 /\ cmds = 1

====
